---- MODULE Spec2Model ----
(***************************************************************************)
(* Model of the Spec Kitty "Universal Bridge": the projector               *)
(* (tools/bridge/speckit_system_bridge.py), the integrity verifier         *)
(* (tools/bridge/verify_bridge_integrity.py) and the marker engines        *)
(* (tools/bridge/sync_rules.py, tools/bridge/sync_skills.py).              *)
(*                                                                         *)
(* Texts and file names are sequences of atoms.  An atom is a literal      *)
(* piece of text that the code searches for or emits, or a filler          *)
(* character; the atoms are chosen so that no search string of the code    *)
(* can straddle an atom boundary.  Python's str.replace / find / split /   *)
(* strip are computed on these sequences the way Python computes them on   *)
(* characters.  The filesystem is fault free in Spec, SpecText and         *)
(* SpecConfig (every read and write succeeds); SpecRun lets one write of   *)
(* a run raise.                                                            *)
(***************************************************************************)
EXTENDS Integers, Sequences, FiniteSets, TLC

VARIABLES
    txt,        \* SpecText: the workflow text handed to the pure functions
    out,        \* SpecText: [op, target, val] result of the last application
    config,     \* content of .kittify/config.yaml
    reg,        \* registrar history: [before, status] of the last registration
    src,        \* source of truth: [workflows, rules], path -> body, and
                \* whether the two root directories exist
    tree,       \* the projected trees of the four targets
    mem,        \* main()'s locals: [rules, workflows], ordered dicts, and
                \* the warnings printed by the reader
    pc,         \* position of main() of the projector
    ver,        \* result of the last verifier run
    hist,       \* bookkeeping of runs: snapshot at run start, corruption
    fault,      \* SpecRun: the one write of the run that raises, if any
    mono,       \* SpecSync: content of one hand-authored monolithic file
    upd         \* SpecSync: the update_file calls made so far

vars == <<txt, out, config, reg, src, tree, mem, pc, ver, hist, fault, mono, upd>>

(***************************************************************************)
(* Bounds of the model                                                     *)
(***************************************************************************)
MaxBodyLen == 5
MaxFmLen == 5
MaxValLen == 4
MaxAvail == 2
MaxFiles == 2

(***************************************************************************)
(* Atoms                                                                   *)
(***************************************************************************)
NL == "\n"
Q == "\""
BS == "\\"
SP == " "
X == "x"
DASHES == "---"
DESC == "description"
COLON == ":"
ACTOR == "--actor "
WINDSURF == "windsurf"
ARGS == "$ARGUMENTS"
GEMINI_ARGS == "{{args}}"
MISSING_SH == "(Missing script command for sh)"
SPEC_KITTY == "spec-kitty"
MD == ".md"
TOML == ".toml"
PROMPT_MD == ".prompt.md"

Targets == {"antigravity", "claude", "gemini", "copilot"}

\* '--actor "windsurf"'
GenericActor == <<ACTOR, Q, WINDSURF, Q>>
\* '--actor "<t>"'
ActorOf(t) == <<ACTOR, Q, t, Q>>

(***************************************************************************)
(* Python string primitives on sequences of atoms                          *)
(***************************************************************************)
SeqsUpTo(S, n) == UNION {[1..k -> S] : k \in 0..n}

\* s[i:i+len(p)] == p   (i is 1-based)
MatchAt(s, p, i) ==
    /\ i >= 1
    /\ i + Len(p) - 1 <= Len(s)
    /\ \A j \in 1..Len(p) : s[i + j - 1] = p[j]

\* s.find(p, start): the least position >= start where p occurs, 0 for Python's -1
Find(s, p, start) ==
    LET hits == {i \in start..(Len(s) - Len(p) + 1) : MatchAt(s, p, i)}
    IN  IF hits = {} THEN 0 ELSE CHOOSE i \in hits : \A j \in hits : i <= j

\* p in s
Contains(s, p) == Find(s, p, 1) # 0

\* s.replace(p, r): non-overlapping occurrences, left to right (p non-empty)
RECURSIVE Replace(_, _, _)
Replace(s, p, r) ==
    LET i == Find(s, p, 1)
    IN  IF i = 0 THEN s
        ELSE SubSeq(s, 1, i - 1) \o r \o Replace(SubSeq(s, i + Len(p), Len(s)), p, r)

\* s.split(sep) for a one-atom separator: the list of pieces
RECURSIVE Split(_, _)
Split(s, sep) ==
    LET i == Find(s, <<sep>>, 1)
    IN  IF i = 0 THEN <<s>>
        ELSE <<SubSeq(s, 1, i - 1)>> \o Split(SubSeq(s, i + 1, Len(s)), sep)

\* s.split(sep, 1): at most one split
SplitOnce(s, sep) ==
    LET i == Find(s, <<sep>>, 1)
    IN  IF i = 0 THEN <<s>>
        ELSE <<SubSeq(s, 1, i - 1), SubSeq(s, i + 1, Len(s))>>

\* s.strip(chars): drop every leading and trailing atom that is in chars
StripChars(s, chars) ==
    LET keep == {i \in 1..Len(s) : s[i] \notin chars}
    IN  IF keep = {} THEN <<>>
        ELSE SubSeq(s, CHOOSE i \in keep : \A j \in keep : i <= j,
                       CHOOSE i \in keep : \A j \in keep : i >= j)

Whitespace == {SP, NL}

(***************************************************************************)
(* Front-matter extraction and content transformation (sync_* bodies)      *)
(***************************************************************************)
EXECUTES == "Executes "
Raised == <<"!IndexError">>

\* stem = filename.replace(".md", "")
StemOf(filename) == Replace(filename, <<MD>>, <<>>)

\* line.startswith("description:")
IsDescriptionLine(line) == MatchAt(line, <<DESC, COLON>>, 1)

\* line.split(":", 1)[1].strip().strip('"')
DescriptionValue(line) ==
    LET parts == SplitOnce(line, COLON)
    IN  IF Len(parts) < 2 THEN Raised
        ELSE StripChars(StripChars(parts[2], Whitespace), {Q})

\* text.startswith("---")
HasOpeningMarker(text) == MatchAt(text, <<DASHES>>, 1)

\* text.find("---", 3): the opening marker is the first atom, so the search
\* starts at the second
ClosingMarker(text) == Find(text, <<DASHES>>, 2)

\* fm = text[3:end]
FrontMatter(text) == SubSeq(text, 2, ClosingMarker(text) - 1)

\* the description before it is escaped
ExtractDescriptionNoCloseCheck(filename, text) ==
    LET default == <<EXECUTES>> \o StemOf(filename)
    IN  IF ~HasOpeningMarker(text) THEN default
        ELSE LET lines == Split(SubSeq(text, 2, Len(text)), NL)
                 hits == {i \in 1..Len(lines) : IsDescriptionLine(lines[i])}
             IN  IF hits = {} THEN default
                 ELSE DescriptionValue(lines[CHOOSE i \in hits : \A j \in hits : i <= j])

ExtractDescription(filename, text) ==
    LET default == <<EXECUTES>> \o StemOf(filename)
    IN  IF ~HasOpeningMarker(text) THEN default
        ELSE IF ClosingMarker(text) = 0 THEN default
        ELSE LET lines == Split(FrontMatter(text), NL)
                 hits == {i \in 1..Len(lines) : IsDescriptionLine(lines[i])}
             IN  IF hits = {} THEN default
                 ELSE DescriptionValue(lines[CHOOSE i \in hits : \A j \in hits : i <= j])

\* description.replace('"', '\\"')
EscapeQuotes(d) == Replace(d, <<Q>>, <<BS, Q>>)

\* the two replacements of sync_antigravity, sync_claude and sync_copilot
FixedTextFirstOnly(t, text) ==
    LET i == Find(text, GenericActor, 1)
        once == IF i = 0 THEN text
                ELSE SubSeq(text, 1, i - 1) \o ActorOf(t)
                     \o SubSeq(text, i + Len(GenericActor), Len(text))
    IN  Replace(once, <<MISSING_SH>>, <<SPEC_KITTY>>)

FixedText(t, text) ==
    Replace(Replace(text, GenericActor, ActorOf(t)), <<MISSING_SH>>, <<SPEC_KITTY>>)

\* the three replacements of sync_gemini
GeminiFixedText(text) ==
    Replace(Replace(Replace(text, GenericActor, ActorOf("gemini")),
                    <<ARGS>>, <<GEMINI_ARGS>>),
            <<MISSING_SH>>, <<SPEC_KITTY>>)

\* toml_content
GeminiToml(filename, text) ==
    <<"description = ", Q>> \o EscapeQuotes(ExtractDescription(filename, text))
    \o <<Q, NL, NL, "prompt = ", Q, Q, Q, NL>>
    \o GeminiFixedText(text) \o <<NL, Q, Q, Q, NL>>

\* what sync_<t> writes for one workflow, and the name it writes it under
Artifact(t, filename, text) ==
    IF t = "gemini" THEN GeminiToml(filename, text) ELSE FixedText(t, text)

ArtifactName(t, filename) ==
    CASE t = "gemini" -> StemOf(filename) \o <<TOML>>
      [] t = "copilot" -> StemOf(filename) \o <<PROMPT_MD>>
      [] OTHER -> filename

(***************************************************************************)
(* Inputs of the pure functions                                            *)
(***************************************************************************)
BodyAlpha == {ACTOR, Q, WINDSURF, ARGS, MISSING_SH, X}
FmAlpha == {DASHES, NL, DESC, COLON, X}
ValAlpha == {Q, SP, X, ACTOR, WINDSURF}

BodyTexts == SeqsUpTo(BodyAlpha, MaxBodyLen)
FmTexts == SeqsUpTo(FmAlpha, MaxFmLen)
\* a description line with value v, framed as a metadata block
FramedTexts ==
    {<<DASHES>> \o pre \o <<DESC, COLON>> \o v \o post :
        pre \in {<<>>, <<NL>>},
        v \in SeqsUpTo(ValAlpha, MaxValLen),
        post \in {<<DASHES>>, <<NL, DASHES, NL>> \o GenericActor}}

TextInputs == BodyTexts \cup FmTexts \cup FramedTexts

FileNames == {<<"a", MD>>, <<"a", MD, MD>>, <<"b", MD>>}

NoOut == [op |-> "none", target |-> "none", name |-> <<>>, val |-> <<>>]

(***************************************************************************)
(* SpecText: the pure functions applied to every bounded input             *)
(***************************************************************************)
Parked == "parked"

TextParked ==
    /\ config = Parked /\ reg = Parked /\ src = Parked /\ tree = Parked
    /\ mem = Parked /\ pc = Parked /\ ver = Parked /\ hist = Parked
    /\ fault = Parked /\ mono = Parked /\ upd = Parked

InitText ==
    /\ txt \in TextInputs
    /\ out = NoOut
    /\ TextParked

\* one iteration of a sync_<t> workflow loop on txt
ApplyProject(t) ==
    /\ out.op = "none"
    /\ out' = [op |-> "project", target |-> t, name |-> <<"a", MD>>,
               val |-> Artifact(t, <<"a", MD>>, txt)]
    /\ UNCHANGED <<txt, config, reg, src, tree, mem, pc, ver, hist, fault, mono, upd>>

\* the description derivation of sync_gemini on txt
ApplyExtract(f) ==
    /\ out.op = "none"
    /\ out' = [op |-> "extract", target |-> "gemini", name |-> f,
               val |-> ExtractDescription(f, txt)]
    /\ UNCHANGED <<txt, config, reg, src, tree, mem, pc, ver, hist, fault, mono, upd>>

NextText ==
    \/ \E t \in Targets : ApplyProject(t)
    \/ \E f \in FileNames : ApplyExtract(f)

SpecText == InitText /\ [][NextText]_vars

NoOpening(text) == ~HasOpeningMarker(text)
NoClosing(text) == HasOpeningMarker(text) /\ ~Contains(SubSeq(text, 2, Len(text)), <<DASHES>>)
BlockLines(text) ==
    Split(SubSeq(text, 2, Find(text, <<DASHES>>, 2) - 1), NL)
NoDescriptionLine(text) ==
    /\ HasOpeningMarker(text)
    /\ Contains(SubSeq(text, 2, Len(text)), <<DASHES>>)
    /\ \A i \in 1..Len(BlockLines(text)) : ~MatchAt(BlockLines(text)[i], <<DESC, COLON>>, 1)

\* C7: the extraction yields "Executes <stem>" when the text does not begin
\* with the marker, when the closing marker is never found, and when the block
\* has no description line; it raises for no input.
FrontMatterFallback ==
    out.op = "extract" =>
        /\ out.val # Raised
        /\ (NoOpening(txt) \/ NoClosing(txt) \/ NoDescriptionLine(txt)) =>
               out.val = <<EXECUTES>> \o StemOf(out.name)

FrontMatterFallbackWitness ==
    /\ out.op = "extract"
    /\ NoClosing(txt)
    /\ \E i \in 1..Len(txt) - 1 : MatchAt(txt, <<DESC, COLON>>, i)
    /\ out.val = <<EXECUTES, "a">>

\* the value the claim describes: surrounding whitespace removed, then one
\* layer of enclosing quotes removed (at most one quote at each end)
OneLayerUnquoted(v) ==
    LET s == StripChars(v, Whitespace)
        a == IF Len(s) >= 1 /\ s[1] = Q THEN SubSeq(s, 2, Len(s)) ELSE s
    IN  IF Len(a) >= 1 /\ a[Len(a)] = Q THEN SubSeq(a, 1, Len(a) - 1) ELSE a

FirstDescriptionLine(text) ==
    LET lines == BlockLines(text)
        hits == {i \in 1..Len(lines) : MatchAt(lines[i], <<DESC, COLON>>, 1)}
    IN  lines[CHOOSE i \in hits : \A j \in hits : i <= j]

HasDescription(text) ==
    /\ HasOpeningMarker(text)
    /\ Contains(SubSeq(text, 2, Len(text)), <<DASHES>>)
    /\ ~NoDescriptionLine(text)

\* C8: when the block has a description line, the derived description is the
\* remainder of that line with surrounding whitespace removed and exactly one
\* layer of enclosing quote characters removed; further quote characters are kept.
OneQuoteLayerStripped ==
    (out.op = "extract" /\ HasDescription(txt)) =>
        out.val = OneLayerUnquoted(SubSeq(FirstDescriptionLine(txt), 3,
                                          Len(FirstDescriptionLine(txt))))

\* the literal replacements of sync_<t>, in the order of the code
ReplacementsOverlapping(t) ==
    IF t = "gemini"
    THEN <<[p |-> GenericActor, r |-> ActorOf(t)],
           [p |-> <<ARGS>>, r |-> <<GEMINI_ARGS>>],
           [p |-> <<MISSING_SH>>, r |-> <<ARGS>>]>>
    ELSE <<[p |-> GenericActor, r |-> ActorOf(t)],
           [p |-> <<MISSING_SH>>, r |-> GenericActor]>>

Replacements(t) ==
    IF t = "gemini"
    THEN <<[p |-> GenericActor, r |-> ActorOf(t)],
           [p |-> <<ARGS>>, r |-> <<GEMINI_ARGS>>],
           [p |-> <<MISSING_SH>>, r |-> <<SPEC_KITTY>>]>>
    ELSE <<[p |-> GenericActor, r |-> ActorOf(t)],
           [p |-> <<MISSING_SH>>, r |-> <<SPEC_KITTY>>]>>

\* the orders in which n replacements can be applied
Orders(n) == {o \in [1..n -> 1..n] : \A i, j \in 1..n : o[i] = o[j] => i = j}

RECURSIVE ApplyInOrder(_, _, _)
\* text after reps[order[1]], reps[order[2]], ... have been applied in turn
ApplyInOrder(text, reps, order) ==
    IF order = <<>> THEN text
    ELSE ApplyInOrder(Replace(text, reps[Head(order)].p, reps[Head(order)].r),
                      reps, Tail(order))

\* the artifact of target t around an already fixed text
WithFixedText(t, filename, text, fixed) ==
    IF t = "gemini"
    THEN <<"description = ", Q>> \o EscapeQuotes(ExtractDescription(filename, text))
         \o <<Q, NL, NL, "prompt = ", Q, Q, Q, NL>> \o fixed \o <<NL, Q, Q, Q, NL>>
    ELSE fixed

\* C19: the replacements of a target are order-independent: applied in any
\* order to the input text they give the artifact the code writes.
ReplacementsOrderIndependent ==
    out.op = "project" =>
        \A order \in Orders(Len(Replacements(out.target))) :
            WithFixedText(out.target, out.name, txt,
                          ApplyInOrder(txt, Replacements(out.target), order))
                = out.val

ReplacementsOrderIndependentWitness ==
    /\ out.op = "project" /\ out.target = "gemini"
    /\ Contains(txt, GenericActor) /\ Contains(txt, <<ARGS>>)
    /\ Contains(out.val, ActorOf("gemini")) /\ Contains(out.val, <<GEMINI_ARGS>>)
    /\ ~Contains(out.val, <<ARGS>>)

(***************************************************************************)
(* Config registrar (update_kittify_config)                                *)
(* A YAML mapping is an ordered dict: a sequence of [k, v] with distinct   *)
(* keys (yaml.safe_load builds a dict, yaml.dump writes it with            *)
(* sort_keys=False).                                                       *)
(***************************************************************************)
DictKeys(d) == {d[i].k : i \in 1..Len(d)}
DictHas(d, key) == key \in DictKeys(d)
DictGet(d, key) == d[CHOOSE i \in 1..Len(d) : d[i].k = key].v
\* d[key] = val : in place when the key exists, appended otherwise
DictSet(d, key, val) ==
    IF DictHas(d, key)
    THEN [i \in 1..Len(d) |-> IF d[i].k = key THEN [k |-> key, v |-> val] ELSE d[i]]
    ELSE Append(d, [k |-> key, v |-> val])
\* the dict without an entry for key
DictDel(d, key) == SelectSeq(d, LAMBDA e : e.k # key)

all_agents == <<"windsurf", "claude", "antigravity", "gemini", "copilot">>

DefaultSelection ==
    <<[k |-> "strategy", v |-> "preferred"],
      [k |-> "preferred_implementer", v |-> "claude"],
      [k |-> "preferred_reviewer", v |-> "claude"]>>

InSeq(x, s) == \E i \in 1..Len(s) : s[i] = x

RECURSIVE AppendMissing(_, _)
\* for agent in all_agents: if agent not in updated_agents: append
AppendMissing(updated, rest) ==
    IF rest = <<>> THEN updated
    ELSE AppendMissing(IF InSeq(Head(rest), updated) THEN updated
                       ELSE Append(updated, Head(rest)),
                       Tail(rest))

\* the config file: missing, not YAML, a YAML document that is no mapping,
\* an empty document, or a mapping
MissingConfig == [kind |-> "missing", items |-> <<>>]
UnparsableConfig == [kind |-> "unparsable", items |-> <<>>]
ScalarConfig == [kind |-> "scalar", items |-> <<>>]
EmptyConfig == [kind |-> "empty", items |-> <<>>]
MapConfig(items) == [kind |-> "map", items |-> items]

NullAgents == [kind |-> "null", items |-> <<>>]
MapAgents(items) == [kind |-> "map", items |-> items]

\* every name appended, whether it is in the list or not
UpdatedAgentsAppendAll(current) ==
    SelectSeq(current, LAMBDA a : InSeq(a, all_agents)) \o all_agents

\* updated_agents of lines 248-259
UpdatedAgents(current) ==
    AppendMissing(SelectSeq(current, LAMBDA a : InSeq(a, all_agents)), all_agents)

\* the try block: the mapping that is dumped, or "raise" when an exception
\* reaches the except clause before anything is written
RegisteredItemsAgentsLast(c) ==
    LET loaded == IF c.kind = "map" THEN c.items ELSE <<>>
        agents0 == IF DictHas(loaded, "agents") THEN DictGet(loaded, "agents")
                   ELSE MapAgents(<<>>)
        current == IF DictHas(agents0.items, "available")
                   THEN DictGet(agents0.items, "available") ELSE <<>>
        agents1 == DictSet(agents0.items, "available", UpdatedAgents(current))
        agents2 == IF DictHas(agents1, "selection") THEN agents1
                   ELSE DictSet(agents1, "selection", DefaultSelection)
    IN  Append(DictDel(loaded, "agents"), [k |-> "agents", v |-> MapAgents(agents2)])

RegisteredItemsDefaultSelection(c) ==
    LET loaded == IF c.kind = "map" THEN c.items ELSE <<>>
        withAgents == IF DictHas(loaded, "agents") THEN loaded
                      ELSE DictSet(loaded, "agents", MapAgents(<<>>))
        agents0 == DictGet(withAgents, "agents")
        current == IF DictHas(agents0.items, "available")
                   THEN DictGet(agents0.items, "available") ELSE <<>>
        agents1 == DictSet(agents0.items, "available", UpdatedAgents(current))
        agents2 == DictSet(agents1, "selection", DefaultSelection)
    IN  DictSet(withAgents, "agents", MapAgents(agents2))

RegisteredItems(c) ==
    LET loaded == IF c.kind = "map" THEN c.items ELSE <<>>
        withAgents == IF DictHas(loaded, "agents") THEN loaded
                      ELSE DictSet(loaded, "agents", MapAgents(<<>>))
        agents0 == DictGet(withAgents, "agents")
        current == IF DictHas(agents0.items, "available")
                   THEN DictGet(agents0.items, "available") ELSE <<>>
        agents1 == DictSet(agents0.items, "available", UpdatedAgents(current))
        agents2 == IF DictHas(agents1, "selection") THEN agents1
                   ELSE DictSet(agents1, "selection", DefaultSelection)
    IN  DictSet(withAgents, "agents", MapAgents(agents2))

\* yaml.safe_load raises, or config is no dict, or config['agents'] has no .get
RegistrarRaises(c) ==
    \/ c.kind \in {"unparsable", "scalar"}
    \/ /\ c.kind = "map"
       /\ DictHas(c.items, "agents")
       /\ DictGet(c.items, "agents").kind # "map"

\* update_kittify_config: the file afterwards
UpdateKittifyConfig(c) ==
    IF RegistrarRaises(c) THEN c ELSE MapConfig(RegisteredItems(c))

RegistrarStatus(c) == IF RegistrarRaises(c) THEN "warned" ELSE "ok"

(***************************************************************************)
(* SpecConfig: the registrar on every bounded configuration file           *)
(***************************************************************************)
AgentNames == {"x", "claude", "gemini"}
CustomSelection == <<[k |-> "strategy", v |-> "random"]>>

AgentsInputs ==
    {NullAgents}
    \cup {MapAgents(sel) : sel \in {<<>>, <<[k |-> "selection", v |-> CustomSelection]>>}}
    \cup {MapAgents(<<[k |-> "available", v |-> av]>> \o sel) :
            av \in SeqsUpTo(AgentNames, MaxAvail),
            sel \in {<<>>, <<[k |-> "selection", v |-> CustomSelection]>>}}
    \cup {MapAgents(<<[k |-> "selection", v |-> CustomSelection],
                      [k |-> "available", v |-> av]>>) :
            av \in SeqsUpTo(AgentNames, MaxAvail)}

Foo == [k |-> "foo", v |-> "bar"]
Project == [k |-> "project", v |-> "demo"]

ConfigInputs ==
    {MissingConfig, UnparsableConfig, ScalarConfig, EmptyConfig,
     MapConfig(<<Foo>>), MapConfig(<<Project, Foo>>)}
    \cup {MapConfig(pre \o <<[k |-> "agents", v |-> a]>> \o post) :
            a \in AgentsInputs, pre \in {<<>>, <<Foo>>}, post \in {<<>>, <<Project>>}}

NoReg == [status |-> "none", before |-> MissingConfig]

MaxRegistrations == 2

\* hist counts the registrations and keeps the file the first one found
InitConfig ==
    /\ config \in ConfigInputs
    /\ reg = NoReg
    /\ hist = [registrations |-> 0, initial |-> config]
    /\ txt = Parked /\ out = Parked /\ src = Parked /\ tree = Parked
    /\ mem = Parked /\ pc = Parked /\ ver = Parked
    /\ fault = Parked /\ mono = Parked /\ upd = Parked

\* one call of update_kittify_config()
Register ==
    /\ hist.registrations < MaxRegistrations
    /\ config' = UpdateKittifyConfig(config)
    /\ reg' = [status |-> RegistrarStatus(config), before |-> config]
    /\ hist' = [hist EXCEPT !.registrations = @ + 1]
    /\ UNCHANGED <<txt, out, src, tree, mem, pc, ver, fault, mono, upd>>

NextConfig == Register

SpecConfig == InitConfig /\ [][NextConfig]_vars

\* agents.available of a configuration file, [] when there is none
Available(c) ==
    IF c.kind = "map" /\ DictHas(c.items, "agents")
       /\ DictGet(c.items, "agents").kind = "map"
       /\ DictHas(DictGet(c.items, "agents").items, "available")
    THEN DictGet(DictGet(c.items, "agents").items, "available")
    ELSE <<>>

\* C1: the registrar only appends the missing target names to
\* agents.available: every entry that was in the list before the call, known
\* to the engine or not, is still there in the same order, and the missing
\* names follow.
RegistrarOnlyAppends ==
    reg.status = "ok" =>
        Available(config) =
            Available(reg.before)
            \o SelectSeq(all_agents, LAMBDA a : ~InSeq(a, Available(reg.before)))

\* the top-level entries of a file other than agents, each with its position
OtherEntries(c) ==
    {<<i, c.items[i]>> : i \in {j \in 1..Len(c.items) : c.items[j].k # "agents"}}

\* C2: the registrar leaves every top-level key other than agents unchanged
\* in value and in position.
OtherKeysUntouched ==
    reg.status # "none" => OtherEntries(config) = OtherEntries(reg.before)

OtherKeysUntouchedWitness ==
    /\ reg.status = "ok"
    /\ reg.before.kind = "map"
    /\ Len(reg.before.items) = 3
    /\ reg.before.items[2].k = "agents"
    /\ config # reg.before
    /\ config.items[1] = Foo
    /\ config.items[3] = Project

\* the agents sub-record of a config, empty when there is none
AgentsOf(c) ==
    IF c.kind = "map" /\ DictHas(c.items, "agents") /\ DictGet(c.items, "agents").kind = "map"
    THEN DictGet(c.items, "agents").items
    ELSE <<>>

\* C18: the default selection sub-record is written only when agents.selection
\* does not exist; an existing agents.selection is left as it was.
SelectionDefaultOnlyWhenAbsent ==
    /\ reg.status = "ok" =>
           /\ DictHas(AgentsOf(config), "selection")
           /\ DictGet(AgentsOf(config), "selection")
                  = IF DictHas(AgentsOf(reg.before), "selection")
                    THEN DictGet(AgentsOf(reg.before), "selection")
                    ELSE DefaultSelection
    /\ reg.status = "warned" => config = reg.before

SelectionDefaultOnlyWhenAbsentWitness ==
    /\ reg.status = "ok"
    /\ DictHas(AgentsOf(reg.before), "selection")
    /\ ~DictHas(AgentsOf(reg.before), "available")
    /\ DictGet(AgentsOf(config), "selection") = CustomSelection
    /\ DictGet(AgentsOf(config), "available") = all_agents

\* C23: after one successful registration a second registration leaves the
\* configuration, agents.available, agents.selection and every other key, as
\* the first left it.
RegistrarIdempotent ==
    (hist.registrations >= 2 /\ reg.status = "ok") => config = reg.before

RegistrarIdempotentWitness ==
    /\ hist.registrations = 2 /\ reg.status = "ok"
    /\ config = reg.before
    /\ config # hist.initial
    /\ Available(hist.initial) = <<"gemini", "x">>
    /\ Available(config) = <<"gemini", "windsurf", "claude", "antigravity", "copilot">>
    /\ ~DictHas(AgentsOf(hist.initial), "selection")
    /\ OtherEntries(config) # {}

(***************************************************************************)
(* The source of truth and the target trees                                *)
(* A source file is [dir, name]: dir is the list of sub-directories below  *)
(* the root that is scanned, name the file name as atoms.                  *)
(***************************************************************************)
TopDir == <<>>
SubDir == <<"sub">>

WfPaths ==
    {[dir |-> TopDir, name |-> <<"a", MD>>],
     [dir |-> TopDir, name |-> <<"a", MD, MD>>],
     [dir |-> SubDir, name |-> <<"a", MD>>],
     [dir |-> TopDir, name |-> <<"b", MD>>]}

RulePaths == {[dir |-> TopDir, name |-> <<"constitution", MD>>]}

\* '---\ndescription: "x"\n---\n--actor "windsurf" $ARGUMENTS'
TokenBody ==
    <<DASHES, NL, DESC, COLON, SP, Q, X, Q, NL, DASHES, NL>>
    \o GenericActor \o <<SP, ARGS>>
PlainBody == <<X>>

WfBodies == {TokenBody, PlainBody}
RuleBodies == {<<X>>}

EmptyDir == [n \in {} |-> <<>>]
NoFile == <<"!absent">>

\* dir with name written (created or replaced wholesale)
WriteFile(dir, name, text) ==
    [n \in (DOMAIN dir) \cup {name} |-> IF n = name THEN text ELSE dir[n]]

\* code point order of the first characters of the atoms of file names
AtomRank(a) ==
    CASE a = MD -> 0
      [] a = "a" -> 1
      [] a = "b" -> 2
      [] a = "constitution" -> 3
      [] a = "sub" -> 4
      [] OTHER -> 5

\* str.__lt__ on two path components
RECURSIVE PartLess(_, _)
PartLess(a, b) ==
    IF b = <<>> THEN FALSE
    ELSE IF a = <<>> THEN TRUE
    ELSE IF AtomRank(Head(a)) # AtomRank(Head(b)) THEN AtomRank(Head(a)) < AtomRank(Head(b))
    ELSE PartLess(Tail(a), Tail(b))

\* the components of a path below the scanned root
PartsOf(p) == [i \in 1..Len(p.dir) |-> <<p.dir[i]>>] \o <<p.name>>

\* Path.__lt__: the lists of components compared lexicographically
RECURSIVE PartsLess(_, _)
PartsLess(a, b) ==
    IF b = <<>> THEN FALSE
    ELSE IF a = <<>> THEN TRUE
    ELSE IF Head(a) # Head(b) THEN PartLess(Head(a), Head(b))
    ELSE PartsLess(Tail(a), Tail(b))

PathLess(p, q) == PartsLess(PartsOf(p), PartsOf(q))

\* sorted(paths)
RECURSIVE Sorted(_)
Sorted(paths) ==
    IF paths = {} THEN <<>>
    ELSE LET m == CHOOSE p \in paths : \A q \in paths \ {p} : PathLess(p, q)
         IN  <<m>> \o Sorted(paths \ {m})

\* Path.stem: the name without its last suffix
PathStem(name) ==
    IF Len(name) >= 2 /\ name[Len(name)] = MD
    THEN SubSeq(name, 1, Len(name) - 1) ELSE name

\* rglob("*.md") / glob("*.md"): every file of the model is named *.md
RGlob(files) == DOMAIN files
Glob(files) == {p \in DOMAIN files : p.dir = TopDir}

(***************************************************************************)
(* Source Reader                                                           *)
(***************************************************************************)
RECURSIVE IngestLoop(_, _, _, _)
\* for f in order: d[key(f)] = read_text(f)
IngestLoop(d, order, files, byStem) ==
    IF order = <<>> THEN d
    ELSE LET f == Head(order)
             key == IF byStem THEN PathStem(f.name) ELSE f.name
         IN  IngestLoop(DictSet(d, key, files[f]), Tail(order), files, byStem)

\* the warnings the reader prints for a root directory that does not exist
NoMemoryDir == "No .kittify/memory directory found. Rules will be empty."
NoWorkflowsDir == "No .windsurf/workflows directory found. Workflows will be empty."

\* exists: the root directory is there; files: the files below it
ingest_rules_silent(exists, files) ==
    [dict |-> IF exists THEN IngestLoop(<<>>, Sorted(RGlob(files)), files, TRUE)
              ELSE <<>>,
     warnings |-> {}]

ingest_rules(exists, files) ==
    IF ~exists
    THEN [dict |-> <<>>, warnings |-> {NoMemoryDir}]
    ELSE [dict |-> IngestLoop(<<>>, Sorted(RGlob(files)), files, TRUE),
          warnings |-> {}]

ingest_workflows(exists, files) ==
    IF ~exists
    THEN [dict |-> <<>>, warnings |-> {NoWorkflowsDir}]
    ELSE [dict |-> IngestLoop(<<>>, Sorted(RGlob(files)), files, FALSE),
          warnings |-> {}]

(***************************************************************************)
(* Directory Preparer                                                      *)
(***************************************************************************)
\* clean_dir without the rmtree: the directory is only ensured to exist
clean_dir_keep(dir) == dir

\* clean_dir: rmtree, then mkdir
clean_dir(dir) == EmptyDir

setup_directories_rules_too(tr) ==
    [tr EXCEPT !.agentRules = clean_dir(@),
               !.agentWorkflows = clean_dir(@),
               !.claudeCommands = clean_dir(@),
               !.geminiCommands = clean_dir(@),
               !.githubPrompts = clean_dir(@)]

\* .agent/rules is only created when missing (line 58), never emptied
setup_directories(tr) ==
    [tr EXCEPT !.agentWorkflows = clean_dir(@),
               !.claudeCommands = clean_dir(@),
               !.geminiCommands = clean_dir(@),
               !.githubPrompts = clean_dir(@)]

(***************************************************************************)
(* Target Projectors                                                       *)
(***************************************************************************)
RECURSIVE WriteWorkflows(_, _, _)
\* for filename, text in workflows.items(): write the artifact of target t
WriteWorkflows(dir, t, wfs) ==
    IF wfs = <<>> THEN dir
    ELSE WriteWorkflows(WriteFile(dir, ArtifactName(t, Head(wfs).k),
                                  Artifact(t, Head(wfs).k, Head(wfs).v)),
                        t, Tail(wfs))

RECURSIVE WriteRules(_, _)
\* for name, content in rules.items(): write rules/<name>.md
WriteRules(dir, rules) ==
    IF rules = <<>> THEN dir
    ELSE WriteRules(WriteFile(dir, Head(rules).k \o <<MD>>, Head(rules).v), Tail(rules))

RECURSIVE Sections(_, _)
\* "".join(f"<heading>{name}\n\n{rule_text}\n\n---\n\n" for each rule)
Sections(heading, rules) ==
    IF rules = <<>> THEN <<>>
    ELSE <<heading>> \o Head(rules).k \o <<NL, NL>> \o Head(rules).v
         \o <<NL, NL, DASHES, NL, NL>> \o Sections(heading, Tail(rules))

RECURSIVE WorkflowIndex(_)
\* the "- /prompts/<stem>.prompt.md" lines of copilot-instructions.md
WorkflowIndex(wfs) ==
    IF wfs = <<>> THEN <<>>
    ELSE <<"- /prompts/">> \o StemOf(Head(wfs).k) \o <<PROMPT_MD, NL>>
         \o WorkflowIndex(Tail(wfs))

ClaudeMd(rules) ==
    <<"# Claude Assistant Instructions", NL, "Managed by Spec Kitty Bridge.", NL, NL>>
    \o Sections("## ", rules)

GeminiMd(rules) ==
    <<"# Gemini CLI Instructions", NL, "Managed by Spec Kitty Bridge.", NL, NL>>
    \o Sections("## ", rules)

CopilotInstructions(wfs, rules) ==
    <<"# Copilot Instructions", NL, "> Managed by Spec Kitty Bridge.", NL, NL>>
    \o Sections("## Rule: ", rules)
    \o <<NL, "# Available Workflows", NL>> \o WorkflowIndex(wfs)

sync_antigravity(tr, wfs, rules) ==
    [tr EXCEPT !.agentRules = WriteRules(@, rules),
               !.agentWorkflows = WriteWorkflows(@, "antigravity", wfs)]

\* CLAUDE.md opened for appending instead of being written wholesale
sync_claude_appending(tr, wfs, rules) ==
    [tr EXCEPT !.claudeMd = (IF @ = NoFile THEN <<>> ELSE @) \o ClaudeMd(rules),
               !.claudeCommands = WriteWorkflows(@, "claude", wfs)]

sync_claude(tr, wfs, rules) ==
    [tr EXCEPT !.claudeMd = ClaudeMd(rules),
               !.claudeCommands = WriteWorkflows(@, "claude", wfs)]

sync_gemini(tr, wfs, rules) ==
    [tr EXCEPT !.geminiMd = GeminiMd(rules),
               !.geminiCommands = WriteWorkflows(@, "gemini", wfs)]

sync_copilot(tr, wfs, rules) ==
    [tr EXCEPT !.copilotInstr = CopilotInstructions(wfs, rules),
               !.githubPrompts = WriteWorkflows(@, "copilot", wfs)]

\* the generated workflow / command / prompt directory of a target
GeneratedDir(tr, t) ==
    CASE t = "antigravity" -> tr.agentWorkflows
      [] t = "claude" -> tr.claudeCommands
      [] t = "gemini" -> tr.geminiCommands
      [] t = "copilot" -> tr.githubPrompts

WithGeneratedDir(tr, t, dir) ==
    CASE t = "antigravity" -> [tr EXCEPT !.agentWorkflows = dir]
      [] t = "claude" -> [tr EXCEPT !.claudeCommands = dir]
      [] t = "gemini" -> [tr EXCEPT !.geminiCommands = dir]
      [] t = "copilot" -> [tr EXCEPT !.githubPrompts = dir]

(***************************************************************************)
(* Integrity Verifier                                                      *)
(***************************************************************************)
MissingError(t, name) == [kind |-> "missing", target |-> t, name |-> name, what |-> <<>>]
ContentError(t, name, expected) ==
    [kind |-> "content", target |-> t, name |-> name, what |-> expected]

\* check_file_exists on a file of a directory: the errors it logs
check_file_exists(dir, t, name) ==
    IF name \in DOMAIN dir THEN {} ELSE {MissingError(t, name)}

\* check_file_exists on a single document
check_doc_exists(doc, t, name) ==
    IF doc # NoFile THEN {} ELSE {MissingError(t, name)}

\* check_content: the errors it logs
check_content(dir, t, name, expected) ==
    IF name \notin DOMAIN dir THEN {}
    ELSE IF ~Contains(dir[name], expected) THEN {ContentError(t, name, expected)}
    ELSE {}

\* the destination the verifier derives for a source workflow
VerifierTarget(t, name) ==
    CASE t = "gemini" -> PathStem(name) \o <<TOML>>
      [] t = "copilot" -> PathStem(name) \o <<PROMPT_MD>>
      [] OTHER -> name

\* one iteration of a "for wf in workflows_source" loop
WorkflowErrors(t, tr, name, body) ==
    LET dir == GeneratedDir(tr, t)
        target == VerifierTarget(t, name)
    IN  IF check_file_exists(dir, t, target) # {} THEN check_file_exists(dir, t, target)
        ELSE (IF Contains(body, GenericActor)
              THEN check_content(dir, t, target, ActorOf(t)) ELSE {})
             \cup (IF t = "gemini" /\ Contains(body, <<ARGS>>)
                   THEN check_content(dir, t, target, <<GEMINI_ARGS>>) ELSE {})

VerifierWarnings(s) ==
    (IF Glob(s.rules) = {} THEN {"No source rules found in .kittify/memory"} ELSE {})
    \cup (IF Glob(s.workflows) = {}
          THEN {"No source workflows found in .windsurf/workflows"} ELSE {})

VerifierErrors(s, tr) ==
    LET rules_source == Glob(s.rules)
        workflows_source == Glob(s.workflows)
    IN  UNION {WorkflowErrors(t, tr, wf.name, s.workflows[wf]) :
                  t \in Targets, wf \in workflows_source}
        \cup UNION {check_file_exists(tr.agentRules, "antigravity", rule.name) :
                       rule \in rules_source}
        \cup (IF rules_source # {}
              THEN check_doc_exists(tr.claudeMd, "claude", <<"CLAUDE.md">>)
                   \cup check_doc_exists(tr.geminiMd, "gemini", <<"GEMINI.md">>)
                   \cup check_doc_exists(tr.copilotInstr, "copilot",
                                         <<"copilot-instructions.md">>)
              ELSE {})

\* the report: exit 1 when warnings or errors were recorded
VerifierExitOnAnyFinding(errors, warnings) ==
    IF errors # {} \/ warnings # {} THEN 1 ELSE 0

\* the report: sys.exit(1) when v.errors, sys.exit(0) otherwise
VerifierExit(errors, warnings) == IF errors # {} THEN 1 ELSE 0

(***************************************************************************)
(* Spec: projection runs, edits of the source, drift of one artifact, and  *)
(* verifier runs                                                           *)
(***************************************************************************)
EmptyTree ==
    [agentRules |-> EmptyDir, agentWorkflows |-> EmptyDir,
     claudeMd |-> NoFile, claudeCommands |-> EmptyDir,
     geminiMd |-> NoFile, geminiCommands |-> EmptyDir,
     copilotInstr |-> NoFile, githubPrompts |-> EmptyDir]

NoSnapshot == [EmptyTree EXCEPT !.claudeMd = <<"!none">>]
NoCorruption == [target |-> "none", name |-> <<>>, what |-> <<>>]
NoVer == [ran |-> FALSE, errors |-> {}, warnings |-> {}, exit |-> 0]
NoMem == [rules |-> <<>>, workflows |-> <<>>, warnings |-> {}]

\* the artifact names the projector writes for the source as it is now
CurrentArtifacts(t, s) == {ArtifactName(t, p.name) : p \in DOMAIN s.workflows}

\* some generated directory holds an artifact of no current source workflow
HasOrphan(tr, s) ==
    \E t \in Targets : ~(DOMAIN GeneratedDir(tr, t) \subseteq CurrentArtifacts(t, s))

Init ==
    /\ src = [workflows |-> EmptyDir, rules |-> EmptyDir,
              workflowsDir |-> TRUE, memoryDir |-> TRUE]
    /\ tree = EmptyTree
    /\ mem = NoMem
    /\ pc = "idle"
    /\ config = MissingConfig
    /\ reg = NoReg
    /\ ver = NoVer
    /\ hist = [result |-> "never", fresh |-> FALSE, corrupted |-> NoCorruption,
               inRow |-> FALSE, start |-> NoSnapshot, orphan |-> FALSE]
    /\ txt = Parked /\ out = Parked
    /\ fault = Parked /\ mono = Parked /\ upd = Parked

Idle == pc = "idle"

\* the operator edits the source of truth between runs (a drifted tree is
\* verified or re-projected before the source is edited again)
SourceEdited(newSrc) ==
    /\ hist.corrupted = NoCorruption
    /\ src' = newSrc
    /\ hist' = [hist EXCEPT !.fresh = FALSE]
    /\ ver' = NoVer
    /\ UNCHANGED <<txt, out, config, reg, tree, mem, pc, fault, mono, upd>>

AddWorkflow(p, body) ==
    /\ Idle
    /\ p \notin DOMAIN src.workflows
    /\ Cardinality(DOMAIN src.workflows) < MaxFiles
    /\ SourceEdited([src EXCEPT !.workflows = WriteFile(@, p, body)])

RemoveWorkflow(p) ==
    /\ Idle
    /\ p \in DOMAIN src.workflows
    /\ SourceEdited([src EXCEPT !.workflows = [q \in (DOMAIN @) \ {p} |-> @[q]]])

AddRule(p, body) ==
    /\ Idle
    /\ p \notin DOMAIN src.rules
    /\ SourceEdited([src EXCEPT !.rules = WriteFile(@, p, body)])

RemoveRule(p) ==
    /\ Idle
    /\ p \in DOMAIN src.rules
    /\ SourceEdited([src EXCEPT !.rules = [q \in (DOMAIN @) \ {p} |-> @[q]]])

\* main(), line 284: setup_directories()
Setup ==
    /\ Idle
    /\ tree' = setup_directories(tree)
    /\ pc' = "ingest_rules"
    /\ mem' = NoMem
    /\ ver' = NoVer
    /\ LET inRow == hist.result # "never" /\ hist.fresh /\ hist.corrupted = NoCorruption
       IN  hist' = [hist EXCEPT !.inRow = inRow,
                                !.start = IF inRow THEN tree ELSE NoSnapshot,
                                !.orphan = HasOrphan(tree, src),
                                !.corrupted = NoCorruption,
                                !.fresh = FALSE]
    /\ UNCHANGED <<txt, out, config, reg, src, fault, mono, upd>>

\* main(), line 287: rules = ingest_rules()
IngestRules ==
    /\ pc = "ingest_rules"
    /\ LET read == ingest_rules(src.memoryDir, src.rules)
       IN  mem' = [mem EXCEPT !.rules = read.dict,
                              !.warnings = @ \cup read.warnings]
    /\ pc' = "ingest_workflows"
    /\ UNCHANGED <<txt, out, config, reg, src, tree, ver, hist, fault, mono, upd>>

\* main(), lines 288-292: workflows = ingest_workflows(), and the early return
IngestWorkflows ==
    /\ pc = "ingest_workflows"
    /\ LET read == ingest_workflows(src.workflowsDir, src.workflows)
           wfs == read.dict
       IN  /\ mem' = [mem EXCEPT !.workflows = wfs,
                                 !.warnings = @ \cup read.warnings]
           /\ IF wfs = <<>> /\ mem.rules = <<>>
              THEN /\ pc' = "idle"
                   /\ hist' = [hist EXCEPT !.result = "nosource", !.fresh = TRUE]
              ELSE /\ pc' = "sync_antigravity"
                   /\ UNCHANGED hist
    /\ UNCHANGED <<txt, out, config, reg, src, tree, ver, fault, mono, upd>>

\* main(), lines 295-298: the four projectors in turn
SyncAntigravity ==
    /\ pc = "sync_antigravity"
    /\ tree' = sync_antigravity(tree, mem.workflows, mem.rules)
    /\ pc' = "sync_claude"
    /\ UNCHANGED <<txt, out, config, reg, src, mem, ver, hist, fault, mono, upd>>

SyncClaude ==
    /\ pc = "sync_claude"
    /\ tree' = sync_claude(tree, mem.workflows, mem.rules)
    /\ pc' = "sync_gemini"
    /\ UNCHANGED <<txt, out, config, reg, src, mem, ver, hist, fault, mono, upd>>

SyncGemini ==
    /\ pc = "sync_gemini"
    /\ tree' = sync_gemini(tree, mem.workflows, mem.rules)
    /\ pc' = "sync_copilot"
    /\ UNCHANGED <<txt, out, config, reg, src, mem, ver, hist, fault, mono, upd>>

SyncCopilot ==
    /\ pc = "sync_copilot"
    /\ tree' = sync_copilot(tree, mem.workflows, mem.rules)
    /\ pc' = "register"
    /\ UNCHANGED <<txt, out, config, reg, src, mem, ver, hist, fault, mono, upd>>

\* main(), line 301: update_kittify_config(), then the run is complete
RegisterAgents ==
    /\ pc = "register"
    /\ config' = UpdateKittifyConfig(config)
    /\ reg' = [status |-> RegistrarStatus(config), before |-> config]
    /\ pc' = "idle"
    /\ hist' = [hist EXCEPT !.result = "complete", !.fresh = TRUE]
    /\ UNCHANGED <<txt, out, src, tree, mem, ver, fault, mono, upd>>

\* someone removes every occurrence of an expected substituted substring from
\* one artifact of a freshly and completely projected tree
Corrupt(t, name, what) ==
    /\ Idle
    /\ hist.result = "complete" /\ hist.fresh /\ hist.corrupted = NoCorruption
    /\ name \in DOMAIN GeneratedDir(tree, t)
    /\ what \in {ActorOf(t)} \cup (IF t = "gemini" THEN {<<GEMINI_ARGS>>} ELSE {})
    /\ Contains(GeneratedDir(tree, t)[name], what)
    /\ tree' = WithGeneratedDir(tree, t,
                   WriteFile(GeneratedDir(tree, t), name,
                             Replace(GeneratedDir(tree, t)[name], what, <<>>)))
    /\ hist' = [hist EXCEPT !.corrupted = [target |-> t, name |-> name, what |-> what]]
    /\ ver' = NoVer
    /\ UNCHANGED <<txt, out, config, reg, src, mem, pc, fault, mono, upd>>

\* one run of verify_bridge_integrity.main()
Verify ==
    /\ Idle
    /\ ~ver.ran
    /\ LET errors == VerifierErrors(src, tree)
           warnings == VerifierWarnings(src)
       IN  ver' = [ran |-> TRUE, errors |-> errors, warnings |-> warnings,
                   exit |-> VerifierExit(errors, warnings)]
    /\ UNCHANGED <<txt, out, config, reg, src, tree, mem, pc, hist, fault, mono, upd>>

Next ==
    \/ \E p \in WfPaths, b \in WfBodies : AddWorkflow(p, b)
    \/ \E p \in WfPaths : RemoveWorkflow(p)
    \/ \E p \in RulePaths, b \in RuleBodies : AddRule(p, b)
    \/ \E p \in RulePaths : RemoveRule(p)
    \/ Setup
    \/ IngestRules
    \/ IngestWorkflows
    \/ SyncAntigravity
    \/ SyncClaude
    \/ SyncGemini
    \/ SyncCopilot
    \/ RegisterAgents
    \/ \E t \in Targets, n \in UNION {DOMAIN GeneratedDir(tree, u) : u \in Targets},
          w \in {ActorOf(u) : u \in Targets} \cup {<<GEMINI_ARGS>>} : Corrupt(t, n, w)
    \/ Verify

Spec == Init /\ [][Next]_vars

\* a projection run has just ended and nothing was touched since
AfterRun == Idle /\ hist.result # "never" /\ hist.fresh /\ hist.corrupted = NoCorruption

\* C3: after a projection run every target's generated directory holds exactly
\* one artifact per source workflow (a workflow is identified by its file
\* name), distinct workflows having distinct artifacts.
OneArtifactPerWorkflow ==
    AfterRun =>
        \A t \in Targets :
            /\ \A p \in DOMAIN src.workflows :
                   \E n \in DOMAIN GeneratedDir(tree, t) : n = ArtifactName(t, p.name)
            /\ Cardinality(DOMAIN GeneratedDir(tree, t))
                   = Cardinality({p.name : p \in DOMAIN src.workflows})

\* C4: a second projection run right after a first one, the source being
\* unchanged, leaves every per-document artifact, every .toml artifact and
\* every monolithic document exactly as the first run left it.
ProjectionIdempotent == (AfterRun /\ hist.inRow) => tree = hist.start

ProjectionIdempotentWitness ==
    /\ AfterRun /\ hist.inRow /\ hist.result = "complete"
    /\ tree = hist.start
    /\ DOMAIN tree.geminiCommands # {}
    /\ DOMAIN tree.agentRules # {}
    /\ tree.claudeMd # NoFile

\* C5: after any run each generated directory holds only artifacts of
\* workflows that are in the source now; an artifact of a workflow removed
\* since the previous run is gone.
NoOrphanArtifacts == AfterRun => ~HasOrphan(tree, src)

NoOrphanArtifactsWitness ==
    /\ AfterRun /\ hist.orphan /\ hist.result = "complete"
    /\ ~HasOrphan(tree, src)

\* C9: the verifier exits 1 exactly when it recorded an error; warnings alone
\* never make it fail, and with an empty source tree it exits 0 whatever the
\* target tree holds.
VerifierFailsOnlyOnErrors ==
    ver.ran =>
        /\ ver.exit \in {0, 1}
        /\ (ver.exit = 1) <=> (ver.errors # {})
        /\ (DOMAIN src.workflows = {} /\ DOMAIN src.rules = {}) => ver.exit = 0

VerifierFailsOnlyOnErrorsWitness ==
    /\ ver.ran
    /\ DOMAIN src.workflows = {} /\ DOMAIN src.rules = {}
    /\ DOMAIN tree.geminiCommands # {}
    /\ tree.claudeMd # NoFile
    /\ Cardinality(ver.warnings) = 2
    /\ ver.exit = 0

\* C10: from a correctly projected tree, removing the expected substituted
\* substring from exactly one artifact makes the verifier record exactly one
\* error, about that artifact, and exit with failure.
DriftDetectedOnce ==
    (ver.ran /\ hist.corrupted # NoCorruption) =>
        /\ ver.errors = {ContentError(hist.corrupted.target, hist.corrupted.name,
                                      hist.corrupted.what)}
        /\ ver.exit = 1

\* C11: the verifier looks for the paths and substrings the projector
\* produces: a verifier run right after a complete projection run, the trees
\* untouched, records no error and exits 0, whatever the source files are.
VerifierAgreesWithProjector ==
    (ver.ran /\ AfterRun /\ hist.result = "complete") =>
        /\ ver.errors = {}
        /\ ver.exit = 0

(***************************************************************************)
(* SpecRun: projector runs on a bounded source whose root directories may  *)
(* be missing, and in which one write may raise                            *)
(***************************************************************************)
NoFault == [kind |-> "none", target |-> "none", name |-> <<>>]
\* Path.write_text of the artifact `name` of target t raises an OSError
WriteFault(t, n) == [kind |-> "write", target |-> t, name |-> n]
\* opening or dumping .kittify/config.yaml raises an OSError
ConfigWriteFault == [kind |-> "config_write", target |-> "none", name |-> <<>>]

\* every directory of at most MaxFiles files
DirsOver(paths, bodies) ==
    UNION {[S -> bodies] : S \in {T \in SUBSET paths : Cardinality(T) <= MaxFiles}}

\* a root that does not exist holds no file
RunSources ==
    {s \in [workflows : DirsOver(WfPaths, WfBodies),
            rules : DirsOver(RulePaths, RuleBodies),
            workflowsDir : BOOLEAN, memoryDir : BOOLEAN] :
        /\ ~s.workflowsDir => s.workflows = EmptyDir
        /\ ~s.memoryDir => s.rules = EmptyDir}

RunFaults ==
    {NoFault, ConfigWriteFault}
    \cup {WriteFault(t, ArtifactName(t, p.name)) : t \in Targets, p \in WfPaths}

RunConfigs == {MissingConfig, UnparsableConfig, MapConfig(<<Foo>>)}

InitRun ==
    /\ src \in RunSources
    /\ fault \in RunFaults
    /\ config \in RunConfigs
    /\ tree = EmptyTree
    /\ mem = NoMem
    /\ pc = "idle"
    /\ reg = NoReg
    /\ ver = NoVer
    /\ hist = [result |-> "never", fresh |-> FALSE, corrupted |-> NoCorruption,
               inRow |-> FALSE, start |-> NoSnapshot, orphan |-> FALSE]
    /\ txt = Parked /\ out = Parked /\ mono = Parked /\ upd = Parked

sync_target(t, tr, wfs, rules) ==
    CASE t = "antigravity" -> sync_antigravity(tr, wfs, rules)
      [] t = "claude" -> sync_claude(tr, wfs, rules)
      [] t = "gemini" -> sync_gemini(tr, wfs, rules)
      [] t = "copilot" -> sync_copilot(tr, wfs, rules)

\* position of the workflow whose artifact write raises in sync_<t>, 0 if none
RaisingWrite(t, wfs, f) ==
    LET hits == {i \in 1..Len(wfs) :
                    /\ f.kind = "write" /\ f.target = t
                    /\ ArtifactName(t, wfs[i].k) = f.name}
    IN  IF hits = {} THEN 0 ELSE CHOOSE i \in hits : \A j \in hits : i <= j

\* sync_<t> left by the exception of its i-th workflow write: what is written
\* before the workflow loop is there, and the artifacts of the workflows
\* before the i-th
sync_target_raising(t, tr, wfs, rules, i) ==
    WithGeneratedDir(sync_target(t, tr, wfs, rules), t,
                     GeneratedDir(sync_target(t, tr, SubSeq(wfs, 1, i - 1), rules), t))

StepOf(t) ==
    CASE t = "antigravity" -> "sync_antigravity"
      [] t = "claude" -> "sync_claude"
      [] t = "gemini" -> "sync_gemini"
      [] t = "copilot" -> "sync_copilot"

StepAfterSkippingCopilot(t) ==
    CASE t = "antigravity" -> "sync_claude"
      [] t = "claude" -> "sync_gemini"
      [] t = "gemini" -> "register"
      [] t = "copilot" -> "register"

StepAfter(t) ==
    CASE t = "antigravity" -> "sync_claude"
      [] t = "claude" -> "sync_gemini"
      [] t = "gemini" -> "sync_copilot"
      [] t = "copilot" -> "register"

\* main(), lines 295-298: sync_<t>; an exception of write_text is caught
\* nowhere and ends the process
RunSync(t) ==
    /\ pc = StepOf(t)
    /\ LET i == RaisingWrite(t, mem.workflows, fault)
       IN  IF i = 0
           THEN /\ tree' = sync_target(t, tree, mem.workflows, mem.rules)
                /\ pc' = StepAfter(t)
                /\ UNCHANGED hist
           ELSE /\ tree' = sync_target_raising(t, tree, mem.workflows, mem.rules, i)
                /\ pc' = "crashed"
                /\ hist' = [hist EXCEPT !.result = "crashed"]
    /\ UNCHANGED <<txt, out, config, reg, src, mem, ver, fault, mono, upd>>

\* update_kittify_config, lines 235 and 277-279: "warned" when the except
\* clause printed the warning
RegistrarOutcomeUncaughtWrite(c, f) ==
    IF RegistrarRaises(c) THEN "warned"
    ELSE IF f.kind = "config_write" THEN "raised" ELSE "ok"

RegistrarOutcome(c, f) ==
    IF RegistrarRaises(c) \/ f.kind = "config_write" THEN "warned" ELSE "ok"

\* the file after update_kittify_config: a write that raises leaves the file
\* as it was (open raised) or truncated (dump raised)
ConfigAfter(c, f) ==
    IF RegistrarRaises(c) THEN {c}
    ELSE IF f.kind = "config_write" THEN {c, EmptyConfig}
    ELSE {UpdateKittifyConfig(c)}

\* main(), lines 301-303
RunRegister ==
    /\ pc = "register"
    /\ config' \in ConfigAfter(config, fault)
    /\ LET status == RegistrarOutcome(config, fault)
       IN  /\ reg' = [status |-> status, before |-> config]
           /\ IF status = "raised"
              THEN /\ pc' = "crashed"
                   /\ hist' = [hist EXCEPT !.result = "crashed"]
              ELSE /\ pc' = "idle"
                   /\ hist' = [hist EXCEPT !.result = "complete", !.fresh = TRUE]
    /\ UNCHANGED <<txt, out, src, tree, mem, ver, fault, mono, upd>>

NextRun ==
    \/ Setup
    \/ IngestRules
    \/ IngestWorkflows
    \/ \E t \in Targets : RunSync(t)
    \/ RunRegister

SpecRun == InitRun /\ [][NextRun]_vars

\* the artifact write that is set to raise has been attempted and the process
\* has ended
WriteRaised ==
    /\ fault.kind = "write"
    /\ RaisingWrite(fault.target, mem.workflows, fault) # 0
    /\ pc = "crashed" \/ (pc = "idle" /\ hist.fresh)

\* C12: a write that fails for one artifact does not stop the rest: when the
\* run is over, the artifact of every other workflow is in place in every
\* target.
WriteFailureIsolated ==
    WriteRaised =>
        \A t \in Targets : \A i \in 1..Len(mem.workflows) :
            ~(t = fault.target /\ ArtifactName(t, mem.workflows[i].k) = fault.name)
                => ArtifactName(t, mem.workflows[i].k) \in DOMAIN GeneratedDir(tree, t)

\* both ingest calls of the current run have returned
IngestionDone ==
    \/ pc \in {StepOf(t) : t \in Targets} \cup {"register", "crashed"}
    \/ pc = "idle" /\ hist.fresh

\* the trees main() leaves when the four projectors have returned
Projected(wfs, rules) ==
    sync_copilot(sync_gemini(sync_claude(
        sync_antigravity(EmptyTree, wfs, rules), wfs, rules), wfs, rules), wfs, rules)

SomeRootMissing == ~src.memoryDir \/ ~src.workflowsDir

\* C16 (as stated): with a root directory missing and no write failing, the
\* run still prints a warning, projects the four targets and registers the
\* agents.
MissingRootDoesNotAbort ==
    (SomeRootMissing /\ fault = NoFault /\ pc = "idle" /\ hist.fresh) =>
        /\ mem.warnings # {}
        /\ hist.result = "complete"
        /\ tree = Projected(mem.workflows, mem.rules)
        /\ reg.status # "none"

\* C16 (amended): a missing root yields an empty mapping and a warning; the
\* run then ends complete, with the four targets projected and the agents
\* registered, when at least one rule or workflow was read, and it returns
\* before projecting or registering when both mappings are empty.
MissingRootEmptyMapping ==
    (SomeRootMissing /\ IngestionDone) =>
        /\ ~src.memoryDir => mem.rules = <<>> /\ NoMemoryDir \in mem.warnings
        /\ ~src.workflowsDir =>
               mem.workflows = <<>> /\ NoWorkflowsDir \in mem.warnings
        /\ (mem.rules = <<>> /\ mem.workflows = <<>>) =>
               /\ pc = "idle" /\ hist.result = "nosource"
               /\ tree = EmptyTree
               /\ reg.status = "none"
        /\ (pc = "idle" /\ ~(mem.rules = <<>> /\ mem.workflows = <<>>)) =>
               /\ hist.result = "complete"
               /\ tree = Projected(mem.workflows, mem.rules)
               /\ reg.status # "none"

MissingRootEmptyMappingWitness ==
    /\ ~src.memoryDir /\ src.workflowsDir
    /\ pc = "idle" /\ hist.fresh /\ hist.result = "complete"
    /\ mem.rules = <<>> /\ Len(mem.workflows) = 2
    /\ NoMemoryDir \in mem.warnings
    /\ DOMAIN tree.githubPrompts # {}
    /\ reg.status = "ok"

\* what the registrar dumps for an empty record
RegisteredFromNothing ==
    MapConfig(<<[k |-> "agents",
                 v |-> MapAgents(<<[k |-> "available", v |-> all_agents],
                                   [k |-> "selection", v |-> DefaultSelection]>>)]>>)

\* C17: a missing config file is an empty record, and a config that cannot be
\* parsed or written is a warning, never fatal: the registrar returns and the
\* run ends complete.
ConfigFailureNotFatal ==
    /\ reg.status \in {"none", "ok", "warned"}
    /\ reg.status # "none" =>
        /\ pc # "crashed"
        /\ pc = "idle" => hist.result = "complete"
        /\ (reg.before = MissingConfig /\ fault.kind # "config_write") =>
               reg.status = "ok" /\ config = RegisteredFromNothing
        /\ (RegistrarRaises(reg.before) \/ fault.kind = "config_write") =>
               reg.status = "warned"

ConfigFailureNotFatalWitness ==
    /\ fault.kind = "config_write"
    /\ reg.status = "warned" /\ reg.before = MissingConfig
    /\ pc = "idle" /\ hist.result = "complete"

\* the order of the sync_<t> calls in main()
TargetOrder == <<"antigravity", "claude", "gemini", "copilot">>

GeneratedEmpty(tr) == \A t \in Targets : GeneratedDir(tr, t) = EmptyDir

\* every target holds what its projector writes for the documents read
AllFourProjected ==
    /\ \A t \in Targets :
           GeneratedDir(tree, t)
               = GeneratedDir(sync_target(t, EmptyTree, mem.workflows, mem.rules), t)
    /\ tree.claudeMd # NoFile /\ tree.geminiMd # NoFile /\ tree.copilotInstr # NoFile

\* C20: the steps of a run come in a fixed order: the clean-sweeps are done
\* before the sources are read and before any artifact is written, the four
\* targets are projected after ingestion, one after the other, and the config
\* is registered only when all four have been projected.
FixedStepOrder ==
    [][ /\ pc = "idle" =>
               pc' = "ingest_rules" /\ GeneratedEmpty(tree') /\ mem' = NoMem
        /\ pc \in {"ingest_rules", "ingest_workflows"} =>
               tree' = tree /\ GeneratedEmpty(tree)
        /\ pc = "ingest_rules" => pc' = "ingest_workflows"
        /\ pc = "ingest_workflows" => pc' \in {"idle", "sync_antigravity"}
        /\ \A i \in 1..4 :
               pc = StepOf(TargetOrder[i]) =>
                   /\ mem' = mem
                   /\ \A j \in i..4 : GeneratedDir(tree, TargetOrder[j]) = EmptyDir
                   /\ \/ pc' = "crashed"
                      \/ i < 4 /\ pc' = StepOf(TargetOrder[i + 1])
                      \/ i = 4 /\ pc' = "register"
        /\ pc = "register" => tree' = tree /\ AllFourProjected /\ pc' = "idle"
        /\ (config' # config \/ reg' # reg) => pc = "register"
      ]_vars

FixedStepOrderWitness ==
    /\ pc = "register"
    /\ hist.inRow
    /\ reg.status = "ok"
    /\ AllFourProjected
    /\ Len(mem.workflows) = 2 /\ Len(mem.rules) = 1
    /\ DOMAIN tree.githubPrompts # {}

(***************************************************************************)
(* SpecRules: projection runs over a .agent/rules directory that holds     *)
(* hand-authored files before the first run                                *)
(***************************************************************************)
ManualRule == <<"manual", MD>>
ConstitutionRule == <<"constitution", MD>>
HandText == <<X, X>>

\* what .agent/rules may hold before the first run
HandRules == UNION {[S -> {HandText}] : S \in SUBSET {ManualRule, ConstitutionRule}}

RuleDocPaths ==
    {[dir |-> TopDir, name |-> ConstitutionRule],
     [dir |-> TopDir, name |-> <<"a", MD>>],
     [dir |-> SubDir, name |-> <<"a", MD>>]}

\* the nested rule document has a text of its own
RuleDocBody(p) == IF p.dir = SubDir THEN <<"y">> ELSE <<X>>

RulesWfPaths == {[dir |-> TopDir, name |-> <<"b", MD>>]}

InitRules ==
    /\ src = [workflows |-> EmptyDir, rules |-> EmptyDir,
              workflowsDir |-> TRUE, memoryDir |-> TRUE]
    /\ \E hand \in HandRules, md \in {NoFile, HandText} :
           tree = [EmptyTree EXCEPT !.agentRules = hand,
                                    !.claudeMd = md, !.geminiMd = md]
    /\ mem = NoMem
    /\ pc = "idle"
    /\ config = MissingConfig
    /\ reg = NoReg
    /\ ver = NoVer
    /\ hist = [result |-> "never", fresh |-> FALSE, corrupted |-> NoCorruption,
               inRow |-> FALSE, start |-> NoSnapshot, orphan |-> FALSE]
    /\ txt = Parked /\ out = Parked
    /\ fault = Parked /\ mono = Parked /\ upd = Parked

NextRules ==
    \/ \E p \in RulesWfPaths, b \in WfBodies : AddWorkflow(p, b)
    \/ \E p \in RulesWfPaths : RemoveWorkflow(p)
    \/ \E p \in RuleDocPaths : AddRule(p, RuleDocBody(p))
    \/ \E p \in RuleDocPaths : RemoveRule(p)
    \/ Setup
    \/ IngestRules
    \/ IngestWorkflows
    \/ SyncAntigravity
    \/ SyncClaude
    \/ SyncGemini
    \/ SyncCopilot
    \/ RegisterAgents

SpecRules == InitRules /\ [][NextRules]_vars

\* the names sync_antigravity writes in .agent/rules for the source s
CurrentRuleNames(s) == {PathStem(p.name) \o <<MD>> : p \in DOMAIN s.rules}

\* C13: no step deletes or rewrites a file of .agent/rules whose name is not
\* that of a current source rule, while the step that starts a run leaves the
\* four generated directories empty.
HandRulesKept ==
    [][ /\ \A n \in DOMAIN tree.agentRules :
               n \notin CurrentRuleNames(src) =>
                   /\ n \in DOMAIN tree'.agentRules
                   /\ tree'.agentRules[n] = tree.agentRules[n]
        /\ (pc = "idle" /\ pc' = "ingest_rules") =>
               \A t \in Targets : GeneratedDir(tree', t) = EmptyDir
      ]_vars

HandRulesKeptWitness ==
    /\ AfterRun /\ hist.inRow /\ hist.result = "complete"
    /\ ManualRule \in DOMAIN tree.agentRules
    /\ tree.agentRules[ManualRule] = HandText
    /\ <<"a", MD>> \in DOMAIN tree.agentRules
    /\ <<"a", MD>> \notin CurrentRuleNames(src)
    /\ ConstitutionRule \in CurrentRuleNames(src)
    /\ tree.agentRules[ConstitutionRule] = <<X>>
    /\ DOMAIN tree.agentWorkflows # {}

ClaudeHeader ==
    <<"# Claude Assistant Instructions", NL, "Managed by Spec Kitty Bridge.", NL, NL>>
GeminiHeader ==
    <<"# Gemini CLI Instructions", NL, "Managed by Spec Kitty Bridge.", NL, NL>>

\* "## <name>\n\n<body>\n\n---\n\n"
Section(name, body) == <<"## ">> \o name \o <<NL, NL>> \o body \o <<NL, NL, DASHES, NL, NL>>

\* the ways of listing every file of a directory once
Listings(files) ==
    {o \in [1..Cardinality(DOMAIN files) -> DOMAIN files] :
        \A i, j \in DOMAIN o : o[i] = o[j] => i = j}

\* no file is listed behind one with a greater file name
AscendingByFilename(o) ==
    \A i, j \in DOMAIN o : i < j => ~PartLess(o[j].name, o[i].name)

RECURSIVE SectionPerName(_, _, _)
\* one section per rule name, at the place of the first listed document of
\* that name and with the text of the last one, from the i-th listed on
SectionPerName(o, i, files) ==
    IF i > Len(o) THEN <<>>
    ELSE LET same == {j \in DOMAIN o : PathStem(o[j].name) = PathStem(o[i].name)}
             last == CHOOSE j \in same : \A k \in same : k <= j
         IN  (IF \E j \in same : j < i THEN <<>>
              ELSE Section(PathStem(o[i].name), files[o[last]]))
             \o SectionPerName(o, i + 1, files)

\* a complete run has just ended
AfterCompleteRun == AfterRun /\ hist.result = "complete"

\* C21: after a run CLAUDE.md and GEMINI.md are the fixed header and one
\* "## <name>" section per source rule, in ascending order of the rule file
\* names, each closed by "---", and nothing else (rule documents of one file
\* name count as one rule here).
SectionPerRuleByFilename ==
    AfterCompleteRun =>
        \E o \in Listings(src.rules) :
            /\ AscendingByFilename(o)
            /\ tree.claudeMd = ClaudeHeader \o SectionPerName(o, 1, src.rules)
            /\ tree.geminiMd = GeminiHeader \o SectionPerName(o, 1, src.rules)

(***************************************************************************)
(* SpecSync: the marker engines of sync_rules.py and sync_skills.py on one *)
(* hand-authored monolithic file                                           *)
(***************************************************************************)
MaxDocLen == 2
MaxUpdates == 3

RULES_SYNC_START == "<!-- RULES_SYNC_START -->"
RULES_SYNC_END == "<!-- RULES_SYNC_END -->"
SKILLS_SYNC_START == "<!-- SKILLS_SYNC_START -->"
SKILLS_SYNC_END == "<!-- SKILLS_SYNC_END -->"
RULES_HEADER == "# SHARED RULES FROM .agent/rules/"
SKILLS_HEADER == "# SHARED SKILLS FROM .agent/skills/"

SyncKinds == {"rules", "skills"}
MARKER_START(kind) == IF kind = "rules" THEN RULES_SYNC_START ELSE SKILLS_SYNC_START
MARKER_END(kind) == IF kind = "rules" THEN RULES_SYNC_END ELSE SKILLS_SYNC_END
SyncHeader(kind) == IF kind = "rules" THEN RULES_HEADER ELSE SKILLS_HEADER

\* f"{MARKER_START}\n<header>\n{new_content}\n{MARKER_END}"
injection_block(kind, new_content) ==
    <<MARKER_START(kind), NL, SyncHeader(kind), NL>> \o new_content
    \o <<NL, MARKER_END(kind)>>

\* update_file(target_name, target_path, new_content): the file afterwards,
\* original_content being NoFile when the target does not exist
update_file(kind, original_content, new_content) ==
    IF original_content = NoFile THEN NoFile
    ELSE IF /\ Contains(original_content, <<MARKER_START(kind)>>)
            /\ Contains(original_content, <<MARKER_END(kind)>>)
         THEN LET pre == Split(original_content, MARKER_START(kind))[1]
                  post == Split(original_content, MARKER_END(kind))[2]
              IN  pre \o injection_block(kind, new_content) \o post
         ELSE original_content \o <<NL, NL>> \o injection_block(kind, new_content)

DocAlpha == {X, RULES_SYNC_START, RULES_SYNC_END}
InitDocs == SeqsUpTo(DocAlpha, MaxDocLen) \cup {NoFile}
\* contents handed to update_file: rule or skill text, which may itself quote
\* a marker
SyncContents == {<<>>, <<X>>, <<X, X>>, <<RULES_SYNC_START>>, <<RULES_SYNC_END>>}

\* the call before the last one, when there was none
NoCall == [kind |-> "none", content |-> <<>>, before |-> NoFile]

InitSync ==
    /\ mono \in InitDocs
    /\ upd = [calls |-> 0, kind |-> "none", content |-> <<>>,
              before |-> mono, first |-> mono, prev |-> NoCall]
    /\ txt = Parked /\ out = Parked /\ fault = Parked
    /\ config = Parked /\ reg = Parked /\ src = Parked /\ tree = Parked
    /\ mem = Parked /\ pc = Parked /\ ver = Parked /\ hist = Parked

\* one call of update_file of sync_rules.py or sync_skills.py on the file
UpdateFile(kind, new_content) ==
    /\ upd.calls < MaxUpdates
    /\ mono' = update_file(kind, mono, new_content)
    /\ upd' = [upd EXCEPT !.calls = @ + 1, !.kind = kind,
                          !.content = new_content, !.before = mono,
                          !.prev = [kind |-> upd.kind, content |-> upd.content,
                                    before |-> upd.before]]
    /\ UNCHANGED <<txt, out, config, reg, src, tree, mem, pc, ver, hist, fault>>

NextSync == \E kind \in SyncKinds, c \in SyncContents : UpdateFile(kind, c)

SpecSync == InitSync /\ [][NextSync]_vars

\* number of occurrences of the atom a in s
Count(s, a) == Cardinality({i \in 1..Len(s) : s[i] = a})

NoMarkers(s) ==
    \A kind \in SyncKinds : Count(s, MARKER_START(kind)) = 0
                            /\ Count(s, MARKER_END(kind)) = 0

\* C14: after any sequence of update_file calls, with any contents, on a file
\* that had no marker to begin with, the file holds at most one start marker
\* and at most one end marker of each kind.
OneMarkerPair ==
    (upd.calls > 0 /\ NoMarkers(upd.first)) =>
        \A kind \in SyncKinds :
            /\ Count(mono, MARKER_START(kind)) <= 1
            /\ Count(mono, MARKER_END(kind)) <= 1

\* C15: on a file with both markers update_file replaces only a span that
\* goes from a start marker to an end marker, the text before that start
\* marker and the text after that end marker staying as they were; on a file
\* with neither marker the original text is kept and the block appended.
EnclosedSpanReplaced ==
    (upd.calls > 0 /\ upd.before # NoFile) =>
        LET b == upd.before
            block == injection_block(upd.kind, upd.content)
            hasStart == Count(b, MARKER_START(upd.kind)) > 0
            hasEnd == Count(b, MARKER_END(upd.kind)) > 0
        IN  /\ (hasStart /\ hasEnd) =>
                \E i, j \in 1..Len(b) :
                    /\ b[i] = MARKER_START(upd.kind)
                    /\ b[j] = MARKER_END(upd.kind)
                    /\ mono = SubSeq(b, 1, i - 1) \o block \o SubSeq(b, j + 1, Len(b))
            /\ (~hasStart /\ ~hasEnd) =>
                /\ SubSeq(mono, 1, Len(b)) = b
                /\ SubSeq(mono, Len(b) + 1, Len(mono)) = <<NL, NL>> \o block

\* s has no marker of the kind, or one start marker and behind it one end marker
NoneOrOnePair(s, kind) ==
    \/ Count(s, MARKER_START(kind)) = 0 /\ Count(s, MARKER_END(kind)) = 0
    \/ /\ Count(s, MARKER_START(kind)) = 1 /\ Count(s, MARKER_END(kind)) = 1
       /\ Find(s, <<MARKER_START(kind)>>, 1) < Find(s, <<MARKER_END(kind)>>, 1)

\* the last two calls were of one kind with one content, on an existing file
SameCallTwice ==
    /\ upd.calls >= 2
    /\ upd.prev.kind = upd.kind /\ upd.prev.content = upd.content
    /\ upd.prev.before # NoFile

\* C22: update_file called twice in a row with one content, on a file that
\* had no marker or one marker pair, leaves the file as the first call left
\* it.
UpdateFileIdempotent ==
    (SameCallTwice /\ NoneOrOnePair(upd.prev.before, upd.kind)) => mono = upd.before

OtherKind(kind) == IF kind = "rules" THEN "skills" ELSE "rules"

\* every stretch of s that goes from a start marker of the kind to an end
\* marker of the kind behind it
Spans(s, kind) ==
    {SubSeq(s, p[1], p[2]) :
        p \in {q \in (1..Len(s)) \X (1..Len(s)) :
                  /\ q[1] < q[2]
                  /\ s[q[1]] = MARKER_START(kind)
                  /\ s[q[2]] = MARKER_END(kind)}}

\* C24: on a file that had, of each kind, no marker or one marker pair, a
\* rules update leaves the SKILLS_SYNC region as it was and a skills update
\* the RULES_SYNC region, and the region of the updated kind holds the block
\* of the update.
RegionsIndependent ==
    (/\ upd.calls > 0 /\ upd.before # NoFile
     /\ \A kind \in SyncKinds : NoneOrOnePair(upd.first, kind)) =>
        /\ injection_block(upd.kind, upd.content) \in Spans(mono, upd.kind)
        /\ Spans(upd.before, OtherKind(upd.kind)) # {} =>
               Spans(upd.before, OtherKind(upd.kind))
                   \cap Spans(mono, OtherKind(upd.kind)) # {}

====
